---- MODULE Spec2Model ----
(***************************************************************************)
(* The appointment service of src/src/EMR_Frontend_Assignment.jsx:         *)
(* the shared array mockAppointments and the four functions of             *)
(* appointmentService (getAppointments, createAppointment,                 *)
(* updateAppointmentStatus, deleteAppointment).  Each is synchronous, so it *)
(* runs to completion and is one atomic action.  The variable view is the  *)
(* state of the component EMRAppointmentSystem (appointments, selectedDate,*)
(* selectedTab, error); its handlers call the service and fetch again.     *)
(*                                                                         *)
(* Representation.  A date string "YYYY-MM-DD" is the triple <<Y, M, D>>   *)
(* and a time string "HH:MM" the pair <<H, M>> of its zero-padded numeric  *)
(* fields; the empty string of either is <<>>.  Instants are counted in    *)
(* minutes instead of milliseconds (the code multiplies every duration by  *)
(* 60000, and every time string is whole minutes).                         *)
(***************************************************************************)
EXTENDS Integers, Sequences, FiniteSets, TLC

VARIABLES mockAppointments, now, call, result, ops, view

vars == <<mockAppointments, now, call, result, ops, view>>

(* ------------------------------ bounds -------------------------------- *)

\* how many of the ten mock records the initial store holds (a prefix)
InitLen == 2
\* how many service calls a behaviour makes
MaxOps == 2
\* how many milliseconds the clock advances over a behaviour
MaxTicks == 1

(* --------------------------- the mock data ---------------------------- *)

Apt(id, patientName, date, time, duration, doctorName, status, mode) ==
    [id |-> id, patientName |-> patientName, date |-> date, time |-> time,
     duration |-> duration, doctorName |-> doctorName, status |-> status,
     mode |-> mode]

AllMockAppointments ==
    << Apt("apt-001", "John Smith", <<2024, 12, 29>>, <<9, 0>>, 30,
           "Dr. Sarah Johnson", "Confirmed", "In-person"),
       Apt("apt-002", "Emma Davis", <<2024, 12, 29>>, <<10, 0>>, 45,
           "Dr. Michael Chen", "Scheduled", "Video"),
       Apt("apt-003", "Robert Wilson", <<2024, 12, 29>>, <<11, 30>>, 30,
           "Dr. Sarah Johnson", "Upcoming", "In-person"),
       Apt("apt-004", "Maria Garcia", <<2024, 12, 30>>, <<9, 30>>, 60,
           "Dr. Emily Brown", "Confirmed", "Phone"),
       Apt("apt-005", "James Anderson", <<2024, 12, 30>>, <<14, 0>>, 30,
           "Dr. Michael Chen", "Scheduled", "Video"),
       Apt("apt-006", "Lisa Martinez", <<2024, 12, 28>>, <<10, 0>>, 45,
           "Dr. Sarah Johnson", "Completed", "In-person"),
       Apt("apt-007", "David Lee", <<2024, 12, 28>>, <<15, 30>>, 30,
           "Dr. Emily Brown", "Completed", "Video"),
       Apt("apt-008", "Sarah Taylor", <<2024, 12, 27>>, <<11, 0>>, 30,
           "Dr. Michael Chen", "Cancelled", "In-person"),
       Apt("apt-009", "Kevin White", <<2025, 1, 2>>, <<9, 0>>, 45,
           "Dr. Sarah Johnson", "Upcoming", "In-person"),
       Apt("apt-010", "Jennifer Brown", <<2025, 1, 2>>, <<13, 0>>, 30,
           "Dr. Emily Brown", "Scheduled", "Phone") >>

Min(a, b) == IF a < b THEN a ELSE b

InitialAppointments ==
    SubSeq(AllMockAppointments, 1, Min(InitLen, Len(AllMockAppointments)))

\* the value of Date.now() when the page is loaded
StartTime == 1000

(* ------------------------------ inputs -------------------------------- *)

\* an optional key the caller left out of the payload
NoKey == "(absent)"

Payload(patientName, date, time, duration, doctorName, mode, status, id) ==
    [patientName |-> patientName, date |-> date, time |-> time,
     duration |-> duration, doctorName |-> doctorName, mode |-> mode,
     status |-> status, id |-> id]

Doctors == {"Dr. Sarah Johnson", "Dr. Michael Chen"}

\* date and time of the slots a caller asks for
Slots == { << <<2024, 12, 29>>, <<9, 15>> >>,
           << <<2024, 12, 29>>, <<9, 30>> >>,
           << <<2024, 12, 29>>, <<23, 45>> >>,
           << <<2024, 12, 30>>, <<0, 0>> >> }

\* well-formed requests, as the form of the view sends them (no status, no id)
\* or with the status the caller chose
WellFormedPayloads ==
    { Payload("Ann Lee", s[1], s[2], 30, d, "Video", st, NoKey) :
        s \in Slots, d \in Doctors, st \in {NoKey, "Cancelled"} }

BasePayload ==
    Payload("Ann Lee", <<2024, 12, 29>>, <<9, 15>>, 30, "Dr. Sarah Johnson",
            "Video", NoKey, NoKey)

\* requests with missing (falsy) required fields, with other durations,
\* with a status outside the enumeration, and with an id of their own
OtherPayloads ==
    { [BasePayload EXCEPT !.patientName = ""],
      [BasePayload EXCEPT !.date = <<>>],
      [BasePayload EXCEPT !.time = <<>>],
      [BasePayload EXCEPT !.duration = 0],
      [BasePayload EXCEPT !.doctorName = ""],
      [BasePayload EXCEPT !.mode = ""],
      [BasePayload EXCEPT !.date = <<>>, !.mode = ""],
      [BasePayload EXCEPT !.patientName = "", !.duration = 0],
      [BasePayload EXCEPT !.time = <<>>, !.doctorName = ""],
      [BasePayload EXCEPT !.duration = -30],
      [BasePayload EXCEPT !.doctorName = "Dr. Michael Chen", !.time = <<9, 30>>,
                          !.duration = 45],
      [BasePayload EXCEPT !.status = "Archived", !.time = <<9, 30>>],
      [BasePayload EXCEPT !.status = ""],
      [BasePayload EXCEPT !.time = <<9, 0>>],
      [BasePayload EXCEPT !.doctorName = "Dr. Michael Chen", !.time = <<9, 0>>],
      [BasePayload EXCEPT !.id = "apt-001", !.time = <<9, 30>>] }

Payloads == WellFormedPayloads \cup OtherPayloads

NewStatuses ==
    {"Scheduled", "Confirmed", "Upcoming", "Completed", "Cancelled", "Archived"}

StoredIds == { mockAppointments[i].id : i \in 1..Len(mockAppointments) }

Ids == StoredIds \cup {"apt-999"}

(* --------------------------- createAppointment ------------------------ *)

required == <<"patientName", "date", "time", "duration", "doctorName", "mode">>

\* !payload[field]
Falsy(payload, field) ==
    CASE field = "patientName" -> payload.patientName = ""
      [] field = "date"        -> payload.date = <<>>
      [] field = "time"        -> payload.time = <<>>
      [] field = "duration"    -> payload.duration = 0
      [] field = "doctorName"  -> payload.doctorName = ""
      [] field = "mode"        -> payload.mode = ""

\* the index in `required` of the field the loop throws on, 0 if it throws on none
RECURSIVE FirstMissingFrom(_, _)
FirstMissingFrom(payload, k) ==
    IF k > Len(required) THEN 0
    ELSE IF Falsy(payload, required[k]) THEN k
    ELSE FirstMissingFrom(payload, k + 1)

\* the required-field loop reporting the last falsy field instead of the first
FirstMissing_Last(payload) ==
    LET falsy == { k \in 1..Len(required) : Falsy(payload, required[k]) }
    IN  IF falsy = {} THEN 0 ELSE CHOOSE k \in falsy : \A j \in falsy : j <= k

FirstMissing(payload) == FirstMissingFrom(payload, 1)

\* days of the months before month m of year y, counted from 2024-01-01
DaysBeforeMonth(y, m) ==
    LET len == <<31, IF y = 2024 THEN 29 ELSE 28, 31, 30, 31, 30, 31, 31, 30, 31, 30, 31>>
        RECURSIVE Sum(_)
        Sum(k) == IF k = 0 THEN 0 ELSE len[k] + Sum(k - 1)
    IN  (y - 2024) * 366 + Sum(m - 1)

\* new Date(`${date}T${time}`).getTime(), in minutes since 2024-01-01T00:00
getTime(date, time) ==
    (DaysBeforeMonth(date[1], date[2]) + date[3] - 1) * 1440 + time[1] * 60 + time[2]

\* the filter without its two status tests
IsCandidate_IgnoresStatus(apt, payload) ==
    /\ apt.doctorName = payload.doctorName
    /\ apt.date = payload.date

\* the filter that selects the appointments compared with the request
IsCandidate(apt, payload) ==
    /\ apt.doctorName = payload.doctorName
    /\ apt.date = payload.date
    /\ apt.status # "Cancelled"
    /\ apt.status # "Completed"

conflicts(apts, payload) == SelectSeq(apts, LAMBDA apt : IsCandidate(apt, payload))

\* the overlap test with the end of the existing appointment counted in
TimesOverlap_EndIncluded(apt, payload) ==
    LET existingStart == getTime(apt.date, apt.time)
        existingEnd   == existingStart + apt.duration
        newStart      == getTime(payload.date, payload.time)
        newEnd        == newStart + payload.duration
    IN  newStart <= existingEnd /\ newEnd > existingStart

\* newStart < existingEnd && newEnd > existingStart
TimesOverlap(apt, payload) ==
    LET existingStart == getTime(apt.date, apt.time)
        existingEnd   == existingStart + apt.duration
        newStart      == getTime(payload.date, payload.time)
        newEnd        == newStart + payload.duration
    IN  newStart < existingEnd /\ newEnd > existingStart

\* the index in conflicts(apts, payload) of the appointment the loop throws on,
\* 0 if it throws on none
RECURSIVE FirstConflictFrom(_, _, _)
FirstConflictFrom(cs, payload, k) ==
    IF k > Len(cs) THEN 0
    ELSE IF TimesOverlap(cs[k], payload) THEN k
    ELSE FirstConflictFrom(cs, payload, k + 1)

FirstConflict(apts, payload) == FirstConflictFrom(conflicts(apts, payload), payload, 1)

\* newApt with status: 'Scheduled' whatever the payload says
newApt_AlwaysScheduled(payload, t) ==
    Apt(IF payload.id = NoKey THEN "apt-" \o ToString(t) ELSE payload.id,
        payload.patientName, payload.date, payload.time, payload.duration,
        payload.doctorName, "Scheduled", payload.mode)

\* { id: `apt-${Date.now()}`, ...payload, status: payload.status || 'Scheduled' }
newApt(payload, t) ==
    Apt(IF payload.id = NoKey THEN "apt-" \o ToString(t) ELSE payload.id,
        payload.patientName, payload.date, payload.time, payload.duration,
        payload.doctorName,
        IF payload.status = NoKey \/ payload.status = "" THEN "Scheduled"
        ELSE payload.status,
        payload.mode)

NoCall ==
    [op |-> "none", payload |-> BasePayload, id |-> "", newStatus |-> "",
     filters |-> [date |-> <<>>, status |-> "", doctorName |-> ""]]

\* what a call gave back: the error it threw (error, with the field or the time
\* the message names) or the value it returned (a record, or a boolean)
Returned(value) ==
    [threw |-> FALSE, error |-> "", field |-> "", time |-> <<>>,
     value |-> value, bool |-> FALSE]

Threw(error, field, time) ==
    [threw |-> TRUE, error |-> error, field |-> field, time |-> time,
     value |-> <<>>, bool |-> FALSE]

createResult(apts, payload, t) ==
    IF FirstMissing(payload) # 0
    THEN Threw("Missing required field", required[FirstMissing(payload)], <<>>)
    ELSE IF FirstConflict(apts, payload) # 0
    THEN Threw("Time conflict with appointment at", "",
               conflicts(apts, payload)[FirstConflict(apts, payload)].time)
    ELSE Returned(<<newApt(payload, t)>>)

\* createAppointment with the push moved before the conflict loop
createStore_PushBeforeCheck(apts, payload, t) ==
    IF FirstMissing(payload) # 0 THEN apts
    ELSE Append(apts, newApt(payload, t))

createStore(apts, payload, t) ==
    IF FirstMissing(payload) # 0 THEN apts
    ELSE IF FirstConflict(apts, payload) # 0 THEN apts
    ELSE Append(apts, newApt(payload, t))

createAppointment(payload) ==
    /\ mockAppointments' = createStore(mockAppointments, payload, now)
    /\ result' = createResult(mockAppointments, payload, now)
    /\ call' = [NoCall EXCEPT !.op = "createAppointment", !.payload = payload]
    /\ ops' = ops + 1
    /\ UNCHANGED now

(* ------------------------ updateAppointmentStatus --------------------- *)

\* mockAppointments.find / findIndex: the first index whose id is id, 0 if none
RECURSIVE findFrom(_, _, _)
findFrom(apts, id, k) ==
    IF k > Len(apts) THEN 0
    ELSE IF apts[k].id = id THEN k
    ELSE findFrom(apts, id, k + 1)

find(apts, id) == findFrom(apts, id, 1)

\* the assignment made to every record instead of the one found
updateStore_AllRecords(apts, id, newStatus) ==
    IF find(apts, id) = 0 THEN apts
    ELSE [k \in 1..Len(apts) |-> [apts[k] EXCEPT !.status = newStatus]]

updateStore(apts, id, newStatus) ==
    IF find(apts, id) = 0 THEN apts
    ELSE [apts EXCEPT ![find(apts, id)].status = newStatus]

\* updateAppointmentStatus without the `if (!apt) throw` line: the assignment
\* to apt.status throws a TypeError instead
updateResult_NoGuard(apts, id, newStatus) ==
    IF find(apts, id) = 0 THEN Threw("TypeError", "", <<>>)
    ELSE Returned(<<updateStore(apts, id, newStatus)[find(apts, id)]>>)

updateResult(apts, id, newStatus) ==
    IF find(apts, id) = 0 THEN Threw("Appointment not found", "", <<>>)
    ELSE Returned(<<updateStore(apts, id, newStatus)[find(apts, id)]>>)

updateAppointmentStatus(id, newStatus) ==
    /\ mockAppointments' = updateStore(mockAppointments, id, newStatus)
    /\ result' = updateResult(mockAppointments, id, newStatus)
    /\ call' = [NoCall EXCEPT !.op = "updateAppointmentStatus", !.id = id,
                              !.newStatus = newStatus]
    /\ ops' = ops + 1
    /\ UNCHANGED now

(* --------------------------- deleteAppointment ------------------------ *)

\* splice(index, 1)
splice(apts, index) ==
    SubSeq(apts, 1, index - 1) \o SubSeq(apts, index + 1, Len(apts))

deleteStore(apts, id) ==
    IF find(apts, id) = 0 THEN apts ELSE splice(apts, find(apts, id))

deleteResult(apts, id) ==
    [Returned(<<>>) EXCEPT !.bool = (find(apts, id) # 0)]

deleteAppointment(id) ==
    /\ mockAppointments' = deleteStore(mockAppointments, id)
    /\ result' = deleteResult(mockAppointments, id)
    /\ call' = [NoCall EXCEPT !.op = "deleteAppointment", !.id = id]
    /\ ops' = ops + 1
    /\ UNCHANGED now

(* ---------------------------- getAppointments ------------------------- *)

\* the characters of the doctor names and of the doctorName filters
Chars(s) ==
    CASE s = "Dr. Sarah Johnson" -> <<"D", "r", ".", " ", "S", "a", "r", "a", "h", " ", "J", "o", "h", "n", "s", "o", "n">>
      [] s = "Dr. Michael Chen" -> <<"D", "r", ".", " ", "M", "i", "c", "h", "a", "e", "l", " ", "C", "h", "e", "n">>
      [] s = "Dr. Emily Brown" -> <<"D", "r", ".", " ", "E", "m", "i", "l", "y", " ", "B", "r", "o", "w", "n">>
      [] s = "sarah" -> <<"s", "a", "r", "a", "h">>
      [] s = "CHEN" -> <<"C", "H", "E", "N">>
      [] s = "dr. " -> <<"d", "r", ".", " ">>
      [] s = "Chen" -> <<"C", "h", "e", "n">>
      [] s = "Smith" -> <<"S", "m", "i", "t", "h">>
      [] s = "" -> <<>>

UpperCase == <<"A", "B", "C", "D", "E", "F", "G", "H", "I", "J", "K", "L", "M", "N", "O", "P", "Q", "R", "S", "T", "U", "V", "W", "X", "Y", "Z">>

LowerCase == <<"a", "b", "c", "d", "e", "f", "g", "h", "i", "j", "k", "l", "m", "n", "o", "p", "q", "r", "s", "t", "u", "v", "w", "x", "y", "z">>

\* String.prototype.toLowerCase, on the characters of a string
toLowerCase(cs) ==
    [k \in 1..Len(cs) |->
        IF \E u \in 1..Len(UpperCase) : UpperCase[u] = cs[k]
        THEN LowerCase[CHOOSE u \in 1..Len(UpperCase) : UpperCase[u] = cs[k]]
        ELSE cs[k]]

\* String.prototype.includes, on the characters of two strings
includes(cs, part) ==
    \E k \in 0..(Len(cs) - Len(part)) : SubSeq(cs, k + 1, k + Len(part)) = part

\* the sign of a.localeCompare(b) for two date or two time strings, which are
\* zero-padded and of one width: the order of their numeric fields
RECURSIVE CompareFrom(_, _, _)
CompareFrom(a, b, k) ==
    IF k > Len(a) \/ k > Len(b)
    THEN (IF Len(a) < Len(b) THEN -1 ELSE IF Len(a) > Len(b) THEN 1 ELSE 0)
    ELSE IF a[k] < b[k] THEN -1
    ELSE IF a[k] > b[k] THEN 1
    ELSE CompareFrom(a, b, k + 1)

localeCompare(a, b) == CompareFrom(a, b, 1)

\* the comparator with the times never compared
compare_DateOnly(a, b) == localeCompare(a.date, b.date)

\* the comparator given to sort
compare(a, b) ==
    IF a.date = b.date THEN localeCompare(a.time, b.time)
    ELSE localeCompare(a.date, b.date)

\* one record put into a sorted sequence, behind the records that do not
\* compare greater (Array.prototype.sort is stable)
RECURSIVE InsertSorted(_, _)
InsertSorted(sorted, x) ==
    IF sorted = <<>> THEN <<x>>
    ELSE IF compare(sorted[Len(sorted)], x) <= 0 THEN Append(sorted, x)
    ELSE Append(InsertSorted(SubSeq(sorted, 1, Len(sorted) - 1), x), sorted[Len(sorted)])

RECURSIVE sortFrom(_, _)
sortFrom(apts, k) ==
    IF k = 0 THEN <<>> ELSE InsertSorted(sortFrom(apts, k - 1), apts[k])

sort(apts) == sortFrom(apts, Len(apts))

\* a filters object; a key left out, or empty, is falsy
Filters(date, status, doctorName) ==
    [date |-> date, status |-> status, doctorName |-> doctorName]

NoFilters == Filters(<<>>, "", "")

FilterSet ==
    { NoFilters,
      Filters(<<2024, 12, 29>>, "", ""),
      Filters(<<>>, "Scheduled", ""),
      Filters(<<>>, "", "sarah"),
      Filters(<<>>, "", "CHEN"),
      Filters(<<>>, "", "Smith"),
      Filters(<<2024, 12, 29>>, "Scheduled", "dr. "),
      Filters(<<2024, 12, 30>>, "", "Chen") }

\* the doctorName test with the filter text not lower-cased
matchesDoctor_NeedleAsTyped(apt, filters) ==
    includes(toLowerCase(Chars(apt.doctorName)), Chars(filters.doctorName))

\* apt.doctorName.toLowerCase().includes(filters.doctorName.toLowerCase())
matchesDoctor(apt, filters) ==
    includes(toLowerCase(Chars(apt.doctorName)), toLowerCase(Chars(filters.doctorName)))

\* the three filter steps, each skipped when its key is falsy
passes(apt, filters) ==
    /\ filters.date # <<>> => apt.date = filters.date
    /\ filters.status # "" => apt.status = filters.status
    /\ filters.doctorName # "" => matchesDoctor(apt, filters)

getAppointmentsResult(apts, filters) ==
    sort(SelectSeq(apts, LAMBDA apt : passes(apt, filters)))

\* the store after a call that sorts mockAppointments itself: without the
\* copy, appointments is the stored array until a filter step replaces it
getAppointmentsStore_SortInPlace(apts, filters) ==
    IF filters.date = <<>> /\ filters.status = "" /\ filters.doctorName = ""
    THEN sort(apts)
    ELSE apts

\* the store after a call that takes the records out of the stored array
\* (mockAppointments.splice(0)) instead of copying them
getAppointmentsStore_Splice(apts, filters) == <<>>

\* the store after the call: appointments = [...mockAppointments] is a new
\* array, and filter and sort work on it
getAppointmentsStore(apts, filters) == apts

getAppointments(filters) ==
    /\ result' = Returned(getAppointmentsResult(mockAppointments, filters))
    /\ mockAppointments' = getAppointmentsStore(mockAppointments, filters)
    /\ call' = [NoCall EXCEPT !.op = "getAppointments", !.filters = filters]
    /\ ops' = ops + 1
    /\ UNCHANGED now

\* the tab filter with the upcoming tab leaving out the appointments of today
getFilteredAppointments_AfterToday(appointments, selectedTab, today) ==
    CASE selectedTab = "today" ->
           SelectSeq(appointments, LAMBDA apt : apt.date = today)
      [] selectedTab = "upcoming" ->
           SelectSeq(appointments, LAMBDA apt :
               /\ localeCompare(apt.date, today) > 0
               /\ apt.status \in {"Scheduled", "Upcoming", "Confirmed"})
      [] selectedTab = "past" ->
           SelectSeq(appointments, LAMBDA apt :
               localeCompare(apt.date, today) < 0 \/ apt.status = "Completed")
      [] OTHER -> appointments

\* the tab filter of the view, over the appointments last fetched; today is
\* new Date().toISOString().split('T')[0]
getFilteredAppointments(appointments, selectedTab, today) ==
    CASE selectedTab = "today" ->
           SelectSeq(appointments, LAMBDA apt : apt.date = today)
      [] selectedTab = "upcoming" ->
           SelectSeq(appointments, LAMBDA apt :
               /\ localeCompare(apt.date, today) >= 0
               /\ apt.status \in {"Scheduled", "Upcoming", "Confirmed"})
      [] selectedTab = "past" ->
           SelectSeq(appointments, LAMBDA apt :
               localeCompare(apt.date, today) < 0 \/ apt.status = "Completed")
      [] OTHER -> appointments

\* the keys of the tabs of the view
Tabs == {"all", "today", "upcoming", "past"}

\* the dates the view is looked at
Todays == {<<2024, 12, 28>>, <<2024, 12, 29>>, <<2024, 12, 30>>}

(* ------------------------------ the clock ----------------------------- *)

\* a millisecond passes between two calls
Tick ==
    /\ now < StartTime + MaxTicks
    /\ now' = now + 1
    /\ UNCHANGED <<mockAppointments, call, result, ops, view>>

(* --------------------------- the specification ------------------------ *)

\* the state of the component once it is mounted: the useState defaults, and
\* the appointments the effect has fetched
Mounted(apts) ==
    [appointments |-> getAppointmentsResult(apts, NoFilters),
     selectedDate |-> <<>>, selectedTab |-> "all", error |-> ""]

Init ==
    /\ mockAppointments = InitialAppointments
    /\ now = StartTime
    /\ call = NoCall
    /\ result = Returned(<<>>)
    /\ ops = 0
    /\ view = Mounted(InitialAppointments)

\* the calls of the service, made by any caller; the component is not told
Create ==
    /\ ops < MaxOps
    /\ \E payload \in Payloads : createAppointment(payload)
    /\ UNCHANGED view

UpdateStatus ==
    /\ ops < MaxOps
    /\ \E id \in Ids, newStatus \in NewStatuses : updateAppointmentStatus(id, newStatus)
    /\ UNCHANGED view

Delete ==
    /\ ops < MaxOps
    /\ \E id \in Ids : deleteAppointment(id)
    /\ UNCHANGED view

Query ==
    /\ ops < MaxOps
    /\ \E filters \in FilterSet : getAppointments(filters)
    /\ UNCHANGED view

Next == Create \/ UpdateStatus \/ Delete \/ Query \/ Tick

Spec == Init /\ [][Next]_vars

(* Longer behaviours of creates and deletes alone, over fewer requests. *)

\* how many service calls a behaviour of SpecLong makes
MaxOpsLong == 3

LongPayloads ==
    { [BasePayload EXCEPT !.time = <<9, 30>>],
      [BasePayload EXCEPT !.id = "apt-001", !.time = <<9, 30>>],
      [BasePayload EXCEPT !.doctorName = "Dr. Michael Chen"],
      [BasePayload EXCEPT !.doctorName = "Dr. Michael Chen", !.status = "Cancelled"] }

CreateLong ==
    /\ ops < MaxOpsLong
    /\ \E payload \in LongPayloads : createAppointment(payload)
    /\ UNCHANGED view

DeleteLong ==
    /\ ops < MaxOpsLong
    /\ \E id \in Ids : deleteAppointment(id)
    /\ UNCHANGED view

NextLong == CreateLong \/ DeleteLong \/ Tick

SpecLong == Init /\ [][NextLong]_vars

(* ------------------------------ the view ------------------------------ *)

\* how many of the ten mock records the store holds when the page is loaded
InitLenView == 3
\* how many handlers of the view a behaviour runs
MaxOpsView == 4

\* the argument of fetchAppointments after a change:
\* selectedDate ? { date: selectedDate } : {}
dateFilter(selectedDate) == Filters(selectedDate, "", "")

\* fetchAppointments(filters), once the call before it has returned:
\* setError(null) and setAppointments(getAppointments(filters))
fetchAppointments(v, apts, filters) ==
    [v EXCEPT !.appointments = getAppointmentsResult(apts, filters), !.error = ""]

\* what a handler leaves in the state of the component: the message of the
\* error the call threw, or the appointments fetched again
afterCall(v, res, apts) ==
    IF res.threw
    THEN [v EXCEPT !.error = res.error]
    ELSE fetchAppointments(v, apts, dateFilter(v.selectedDate))

\* the new statuses the buttons of a card pass to handleStatusUpdate: Confirm
\* on Scheduled; Cancel on Scheduled, Confirmed, Upcoming; Complete on Confirmed
AppointmentCard(appointment) ==
    (IF appointment.status = "Scheduled" THEN {"Confirmed"} ELSE {})
    \cup (IF appointment.status \in {"Scheduled", "Confirmed", "Upcoming"}
          THEN {"Cancelled"} ELSE {})
    \cup (IF appointment.status = "Confirmed" THEN {"Completed"} ELSE {})

\* the cards on the page: filteredAppointments, for the date of the clock
filteredAppointments(v, today) ==
    getFilteredAppointments(v.appointments, v.selectedTab, today)

\* the values of the form: text, date, time and number inputs and two selects
FormData ==
    { BasePayload,
      [BasePayload EXCEPT !.patientName = ""],
      [BasePayload EXCEPT !.doctorName = "Dr. Michael Chen", !.time = <<23, 45>>],
      [BasePayload EXCEPT !.date = <<2024, 12, 30>>, !.time = <<0, 0>>] }

\* the days of the calendar widget the user clicks
CalendarDates == {<<2024, 12, 29>>, <<2024, 12, 30>>}

\* the call of the service, then the fetch; in the handlers call and result
\* keep the call of the service, and the fetch goes to view.appointments
handleStatusUpdate(id, newStatus) ==
    /\ updateAppointmentStatus(id, newStatus)
    /\ view' = afterCall(view, result', mockAppointments')

handleCreateAppointment(formData) ==
    /\ createAppointment(formData)
    /\ view' = afterCall([view EXCEPT !.error = ""], result', mockAppointments')

\* the user has answered window.confirm with OK
handleDeleteAppointment(id) ==
    /\ deleteAppointment(id)
    /\ view' = afterCall(view, result', mockAppointments')

handleDateClick(date) ==
    /\ getAppointments(Filters(date, "", ""))
    /\ view' = fetchAppointments([view EXCEPT !.selectedDate = date],
                                 mockAppointments', Filters(date, "", ""))

\* the button under the calendar: setSelectedDate(null); fetchAppointments()
clearDate ==
    /\ view.selectedDate # <<>>
    /\ getAppointments(NoFilters)
    /\ view' = fetchAppointments([view EXCEPT !.selectedDate = <<>>],
                                 mockAppointments', NoFilters)

setSelectedTab(tab) ==
    /\ view' = [view EXCEPT !.selectedTab = tab]
    /\ UNCHANGED <<mockAppointments, now, call, result, ops>>

InitView ==
    /\ mockAppointments = SubSeq(AllMockAppointments, 1,
                                 Min(InitLenView, Len(AllMockAppointments)))
    /\ now = StartTime
    /\ call = NoCall
    /\ result = Returned(<<>>)
    /\ ops = 0
    /\ view = Mounted(mockAppointments)

\* a click on a status button of one of the cards on the page
ClickStatus ==
    /\ ops < MaxOpsView
    /\ \E today \in Todays :
          \E k \in 1..Len(filteredAppointments(view, today)) :
             LET appointment == filteredAppointments(view, today)[k]
             IN  \E newStatus \in AppointmentCard(appointment) :
                    handleStatusUpdate(appointment.id, newStatus)

\* a click on the Delete button of one of the cards on the page
ClickDelete ==
    /\ ops < MaxOpsView
    /\ \E today \in Todays :
          \E k \in 1..Len(filteredAppointments(view, today)) :
             handleDeleteAppointment(filteredAppointments(view, today)[k].id)

Submit == ops < MaxOpsView /\ \E formData \in FormData : handleCreateAppointment(formData)

DateClick == ops < MaxOpsView /\ \E date \in CalendarDates : handleDateClick(date)

ClearDate == ops < MaxOpsView /\ clearDate

SelectTab == \E tab \in Tabs : setSelectedTab(tab)

NextView ==
    ClickStatus \/ ClickDelete \/ Submit \/ DateClick \/ ClearDate \/ SelectTab \/ Tick

SpecView == InitView /\ [][NextView]_vars

(* ------------------------ vocabulary of the claims -------------------- *)

Statuses == {"Scheduled", "Confirmed", "Upcoming", "Completed", "Cancelled"}

ActiveStatuses == {"Scheduled", "Upcoming", "Confirmed"}

TerminalStatuses == {"Completed", "Cancelled"}

\* the transition table: scheduled|upcoming -> confirmed|cancelled,
\* confirmed -> completed|cancelled
Edge(from, to) ==
    \/ from \in {"Scheduled", "Upcoming"} /\ to \in {"Confirmed", "Cancelled"}
    \/ from = "Confirmed" /\ to \in {"Completed", "Cancelled"}

\* the half-open interval [date+time, date+time+duration) of a record or request
StartOf(a) == getTime(a.date, a.time)

EndOf(a) == StartOf(a) + a.duration

IntervalsOverlap(a, b) == StartOf(a) < EndOf(b) /\ StartOf(b) < EndOf(a)

\* the step is a call of the service (not a tick of the clock)
IsCall(op) == ops' = ops + 1 /\ call'.op = op

\* a request that passes the validation the specification describes
ValidRequest(payload) == FirstMissing(payload) = 0 /\ payload.duration > 0

(* -------------------------------- C1 ---------------------------------- *)

\* C1: in every reachable state, for every doctor, no two distinct stored
\* appointments with active status (Scheduled, Upcoming, Confirmed) have
\* overlapping intervals [date+time, date+time+duration).
C1_NoDoubleBooking ==
    \A i, j \in 1..Len(mockAppointments) :
        (/\ i < j
         /\ mockAppointments[i].doctorName = mockAppointments[j].doctorName
         /\ mockAppointments[i].status \in ActiveStatuses
         /\ mockAppointments[j].status \in ActiveStatuses)
        => ~IntervalsOverlap(mockAppointments[i], mockAppointments[j])

(* -------------------------------- C2 ---------------------------------- *)

\* C2: a call updateAppointmentStatus(id, newStatus) on a stored appointment
\* whose status is `from` throws InvalidTransition whenever (from, newStatus)
\* is not an edge of the transition table.
C2_InvalidTransitionRejected ==
    [][ IsCall("updateAppointmentStatus") =>
          \A i \in 1..Len(mockAppointments) :
              (/\ mockAppointments[i].id = call'.id
               /\ ~Edge(mockAppointments[i].status, call'.newStatus))
              => result'.threw /\ result'.error = "InvalidTransition" ]_vars

(* -------------------------------- C3 ---------------------------------- *)

\* C3: once a stored appointment is Completed or Cancelled, no call changes
\* its status; it can only be deleted (createAppointment and
\* updateAppointmentStatus keep every record at its index).
C3_TerminalAbsorbing ==
    [][ (ops' = ops + 1 /\ call'.op # "deleteAppointment") =>
          \A i \in 1..Len(mockAppointments) :
              mockAppointments[i].status \in TerminalStatuses
              => /\ i <= Len(mockAppointments')
                 /\ mockAppointments'[i].status = mockAppointments[i].status ]_vars

(* -------------------------------- C4 ---------------------------------- *)

\* C4: a createAppointment call whose request passes validation and whose
\* interval overlaps the interval of a stored appointment of the same doctor
\* with active status, whatever that appointment's date, throws the conflict
\* error and inserts nothing.
C4_CreateRejectsEveryOverlap ==
    [][ (/\ IsCall("createAppointment")
         /\ ValidRequest(call'.payload)
         /\ \E i \in 1..Len(mockAppointments) :
               /\ mockAppointments[i].doctorName = call'.payload.doctorName
               /\ mockAppointments[i].status \in ActiveStatuses
               /\ IntervalsOverlap(mockAppointments[i], call'.payload))
        => /\ result'.threw
           /\ result'.error = "Time conflict with appointment at"
           /\ mockAppointments' = mockAppointments ]_vars

(* -------------------------------- C5 ---------------------------------- *)

\* C5: two createAppointment calls made one after the other (in either order,
\* with no other call between them) for the same doctor, with overlapping
\* intervals and active statuses, never both succeed.
C5_OverlappingCreatesNeverBothSucceed ==
    [][ (/\ call.op = "createAppointment" /\ ~result.threw
         /\ IsCall("createAppointment") /\ ~result'.threw)
        => LET first  == result.value[1]
               second == result'.value[1]
           IN  ~(/\ first.doctorName = second.doctorName
                 /\ first.status \in ActiveStatuses
                 /\ second.status \in ActiveStatuses
                 /\ first.duration > 0 /\ second.duration > 0
                 /\ IntervalsOverlap(first, second)) ]_vars

(* -------------------------------- C6 ---------------------------------- *)

\* C6: the ids of the appointments in the store are pairwise distinct (the
\* part of identifier uniqueness that the store alone shows).
C6_IdsUnique ==
    \A i, j \in 1..Len(mockAppointments) :
        i # j => mockAppointments[i].id # mockAppointments[j].id

(* -------------------------------- C7 ---------------------------------- *)

\* C7: the status of every stored appointment is one of Scheduled, Confirmed,
\* Upcoming, Completed, Cancelled.
C7_StatusDomain ==
    \A i \in 1..Len(mockAppointments) : mockAppointments[i].status \in Statuses

(* -------------------------------- C8 ---------------------------------- *)

\* C8: a createAppointment or updateAppointmentStatus call that throws leaves
\* mockAppointments exactly as it was before the call.
C8_FailedCallChangesNothing ==
    [][ (/\ ops' = ops + 1
         /\ call'.op \in {"createAppointment", "updateAppointmentStatus"}
         /\ result'.threw)
        => mockAppointments' = mockAppointments ]_vars

\* a createAppointment call has thrown the conflict error on a non-empty store
C8_Witness ==
    /\ call.op = "createAppointment"
    /\ result.threw
    /\ result.error = "Time conflict with appointment at"
    /\ Len(mockAppointments) > 0

(* -------------------------------- C9 ---------------------------------- *)

\* C9: updateAppointmentStatus(id, newStatus) with an id that no stored
\* appointment has throws 'Appointment not found', for every newStatus.
C9_UnknownIdNotFound ==
    [][ (/\ IsCall("updateAppointmentStatus")
         /\ \A i \in 1..Len(mockAppointments) : mockAppointments[i].id # call'.id)
        => result'.threw /\ result'.error = "Appointment not found" ]_vars

\* updateAppointmentStatus was called with an id that is not in the store and
\* has thrown
C9_Witness ==
    /\ call.op = "updateAppointmentStatus"
    /\ call.id \notin StoredIds
    /\ result.threw
    /\ result.error = "Appointment not found"

(* -------------------------------- C10 --------------------------------- *)

\* C10: for every stored appointment with status `from` and every `to` such
\* that (from, to) is an edge of the table, updateAppointmentStatus(id, to)
\* with that appointment's id returns, that appointment's status becomes `to`,
\* and the updated record is the value returned.
C10_AllowedTransitionsSucceed ==
    [][ IsCall("updateAppointmentStatus") =>
          \A i \in 1..Len(mockAppointments) :
              (/\ mockAppointments[i].id = call'.id
               /\ Edge(mockAppointments[i].status, call'.newStatus))
              => /\ ~result'.threw
                 /\ Len(mockAppointments') = Len(mockAppointments)
                 /\ mockAppointments'[i].status = call'.newStatus
                 /\ result'.value = <<mockAppointments'[i]>> ]_vars

(* -------------------------------- C11 --------------------------------- *)

\* the request starts where the stored appointment ends, or ends where it starts
Adjacent(apt, payload) ==
    StartOf(payload) = EndOf(apt) \/ EndOf(payload) = StartOf(apt)

\* C11: a valid createAppointment request that is adjacent to a stored active
\* appointment of the same doctor, and overlaps no active appointment of that
\* doctor, returns and its record is appended to the store.
C11_AdjacentSlotsSucceed ==
    [][ (/\ IsCall("createAppointment")
         /\ ValidRequest(call'.payload)
         /\ \E i \in 1..Len(mockAppointments) :
               /\ mockAppointments[i].doctorName = call'.payload.doctorName
               /\ mockAppointments[i].status \in ActiveStatuses
               /\ Adjacent(mockAppointments[i], call'.payload)
         /\ \A j \in 1..Len(mockAppointments) :
               (/\ mockAppointments[j].doctorName = call'.payload.doctorName
                /\ mockAppointments[j].status \in ActiveStatuses)
               => ~IntervalsOverlap(mockAppointments[j], call'.payload))
        => /\ ~result'.threw
           /\ Len(result'.value) = 1
           /\ mockAppointments' = Append(mockAppointments, result'.value[1]) ]_vars

(* -------------------------------- C12 --------------------------------- *)

\* C12: a valid createAppointment request returns and is appended whenever
\* every stored appointment of the same doctor that overlaps its interval is
\* Cancelled or Completed.
C12_TerminalNeverBlocks ==
    [][ (/\ IsCall("createAppointment")
         /\ ValidRequest(call'.payload)
         /\ \A j \in 1..Len(mockAppointments) :
               (/\ mockAppointments[j].doctorName = call'.payload.doctorName
                /\ IntervalsOverlap(mockAppointments[j], call'.payload))
               => mockAppointments[j].status \in TerminalStatuses)
        => /\ ~result'.threw
           /\ Len(result'.value) = 1
           /\ mockAppointments' = Append(mockAppointments, result'.value[1]) ]_vars

\* a request for the doctor, date, time and duration of a Cancelled stored
\* appointment has returned and its record is the last of the store
C12_Witness ==
    /\ call.op = "createAppointment"
    /\ ~result.threw
    /\ Len(mockAppointments) > 1
    /\ mockAppointments[Len(mockAppointments)] = result.value[1]
    /\ \E j \in 1..(Len(mockAppointments) - 1) :
          /\ mockAppointments[j].status = "Cancelled"
          /\ mockAppointments[j].doctorName = call.payload.doctorName
          /\ mockAppointments[j].date = call.payload.date
          /\ mockAppointments[j].time = call.payload.time
          /\ mockAppointments[j].duration = call.payload.duration

(* -------------------------------- C13 --------------------------------- *)

\* C13: every stored appointment has duration > 0 (so no request with a zero
\* or negative duration is ever inserted).
C13_DurationPositive ==
    \A i \in 1..Len(mockAppointments) : mockAppointments[i].duration > 0

(* -------------------------------- C14 --------------------------------- *)

\* the order in which the specification names the fields
FieldOrder == <<"patientName", "date", "time", "duration", "doctorName", "mode">>

\* the missing or empty required fields of a request
MissingFields(payload) ==
    {f \in {"patientName", "date", "time", "duration", "doctorName", "mode"} :
        Falsy(payload, f)}

\* C14: a createAppointment call whose request has missing or empty required
\* fields throws 'Missing required field' naming the one that comes first in
\* the order patientName, date, time, duration, doctorName, mode, also when
\* the request conflicts with a stored appointment.
C14_FirstMissingFieldNamed ==
    (call.op = "createAppointment" /\ MissingFields(call.payload) # {})
    => /\ result.threw
       /\ result.error = "Missing required field"
       /\ result.field \in MissingFields(call.payload)
       /\ \A k \in 1..Len(FieldOrder) :
             FieldOrder[k] = result.field
             => \A j \in 1..(k - 1) : FieldOrder[j] \notin MissingFields(call.payload)

\* a request with two missing fields, which but for them would conflict with a
\* stored active appointment, was refused for the first of the two
C14_Witness ==
    /\ call.op = "createAppointment"
    /\ Cardinality(MissingFields(call.payload)) = 2
    /\ result.threw
    /\ result.field = "patientName"
    /\ \E i \in 1..Len(mockAppointments) :
          /\ mockAppointments[i].doctorName = call.payload.doctorName
          /\ mockAppointments[i].date = call.payload.date
          /\ mockAppointments[i].status \in ActiveStatuses

(* -------------------------------- C15 --------------------------------- *)

Others(apts, id) == SelectSeq(apts, LAMBDA a : a.id # id)

\* C16: deleteAppointment(id) for an id in the store returns true whatever the
\* appointment's status, afterwards no stored appointment has that id, and
\* every other stored appointment is unchanged.
C16_DeletePresent ==
    [][ (/\ IsCall("deleteAppointment")
         /\ \E i \in 1..Len(mockAppointments) : mockAppointments[i].id = call'.id)
        => /\ ~result'.threw
           /\ result'.bool
           /\ \A i \in 1..Len(mockAppointments') : mockAppointments'[i].id # call'.id
           /\ mockAppointments' = Others(mockAppointments, call'.id) ]_vars

(* -------------------------------- C17 --------------------------------- *)

\* C17: deleteAppointment(id) for an id that is not in the store returns false,
\* throws nothing and leaves the store unchanged; and of two deleteAppointment
\* calls with the same id made one after the other, the second returns false
\* and changes nothing.
C17_DeleteAbsent ==
    [][ /\ (/\ IsCall("deleteAppointment")
            /\ \A i \in 1..Len(mockAppointments) : mockAppointments[i].id # call'.id)
           => /\ ~result'.threw
              /\ ~result'.bool
              /\ mockAppointments' = mockAppointments
        /\ (/\ call.op = "deleteAppointment"
            /\ IsCall("deleteAppointment")
            /\ call'.id = call.id)
           => /\ ~result'.threw
              /\ ~result'.bool
              /\ mockAppointments' = mockAppointments ]_vars

(* -------------------------------- C18 --------------------------------- *)

\* C18: an updateAppointmentStatus(id, newStatus) call that returns leaves the
\* number of stored appointments unchanged, changes no field other than status
\* of any of them, and changes the status of one appointment at most, one
\* whose id is id.
C18_UpdateStatusFrame ==
    [][ (IsCall("updateAppointmentStatus") /\ ~result'.threw)
        => /\ Len(mockAppointments') = Len(mockAppointments)
           /\ \A i \in 1..Len(mockAppointments) :
                 /\ mockAppointments'[i] =
                       [mockAppointments[i] EXCEPT !.status = mockAppointments'[i].status]
                 /\ mockAppointments[i].id # call'.id
                    => mockAppointments'[i] = mockAppointments[i]
           /\ Cardinality({ i \in 1..Len(mockAppointments) :
                               mockAppointments'[i] # mockAppointments[i] }) <= 1 ]_vars

\* an updateAppointmentStatus call has returned a record with the new status
\* while another appointment is stored beside it
C18_Witness ==
    /\ call.op = "updateAppointmentStatus"
    /\ ~result.threw
    /\ Len(result.value) = 1
    /\ result.value[1].status = call.newStatus
    /\ \E i \in 1..Len(mockAppointments) :
          mockAppointments[i].id # call.id /\ mockAppointments[i].status # call.newStatus

(* -------------------------------- C19 --------------------------------- *)

\* two characters are the same letter in either case, or the same character
SameLetter(a, b) ==
    \/ a = b
    \/ \E u \in 1..Len(UpperCase) :
          {a, b} \subseteq {UpperCase[u], LowerCase[u]}

\* name contains part, whatever the case of the letters
ContainsIgnoringCase(name, part) ==
    \E k \in 0..(Len(Chars(name)) - Len(Chars(part))) :
        \A j \in 1..Len(Chars(part)) : SameLetter(Chars(name)[k + j], Chars(part)[j])

\* the record satisfies every predicate the filter supplies
Satisfies(apt, f) ==
    /\ f.date # <<>> => apt.date = f.date
    /\ f.status # "" => apt.status = f.status
    /\ f.doctorName # "" => ContainsIgnoringCase(apt.doctorName, f.doctorName)

\* how many times a record occurs in a sequence
Count(seq, r) == Cardinality({ i \in 1..Len(seq) : seq[i] = r })

Range(seq) == { seq[i] : i \in 1..Len(seq) }

\* C19: getAppointments(filters) returns exactly the stored appointments that
\* satisfy every supplied predicate (date equal, status equal, doctorName
\* containing the text in any case), each as often as it is stored; an omitted
\* predicate restricts nothing.
C19_BaseFilter ==
    [][ IsCall("getAppointments")
        => /\ ~result'.threw
           /\ \A r \in Range(mockAppointments) \cup Range(result'.value) :
                 Count(result'.value, r) =
                    (IF Satisfies(r, call'.filters) THEN Count(mockAppointments, r) ELSE 0) ]_vars

\* a query for the doctors whose name contains CHEN has returned some of the
\* stored appointments and left others out
C19_Witness ==
    /\ call.op = "getAppointments"
    /\ call.filters.doctorName = "CHEN"
    /\ Len(result.value) >= 1
    /\ Len(result.value) < Len(mockAppointments)

(* -------------------------------- C20 --------------------------------- *)

\* a is not after b: an earlier date, or the same date and not a later time
NotAfter(a, b) ==
    \/ getTime(a.date, <<0, 0>>) < getTime(b.date, <<0, 0>>)
    \/ a.date = b.date /\ a.time[1] * 60 + a.time[2] <= b.time[1] * 60 + b.time[2]

Ordered(seq) == \A k \in 1..(Len(seq) - 1) : NotAfter(seq[k], seq[k + 1])

\* C20: in what getAppointments returns, and in what every tab of the view
\* keeps of it, each record is followed by one of a later date, or of the
\* same date and the same or a later time.
C20_QueryOrdered ==
    call.op = "getAppointments"
    => /\ Ordered(result.value)
       /\ \A tab \in Tabs, today \in Todays :
             Ordered(getFilteredAppointments(result.value, tab, today))

\* a query has returned three or more appointments in another order than the
\* store holds them
C20_Witness ==
    /\ call.op = "getAppointments"
    /\ Len(result.value) >= 3
    /\ result.value #
          SelectSeq(mockAppointments, LAMBDA apt : passes(apt, call.filters))

(* -------------------------------- C21 --------------------------------- *)

\* the day of a date, counted in calendar order
DayOf(date) == getTime(date, <<0, 0>>)

\* the record belongs to the tab for the reference date
InTab(apt, tab, referenceDate) ==
    CASE tab = "today"    -> apt.date = referenceDate
      [] tab = "upcoming" -> /\ DayOf(apt.date) >= DayOf(referenceDate)
                             /\ apt.status \in ActiveStatuses
      [] tab = "past"     -> \/ DayOf(apt.date) < DayOf(referenceDate)
                             \/ apt.status = "Completed"
      [] tab = "all"      -> TRUE

\* C21: of the appointments a query returned, the today tab keeps exactly
\* those of the reference date, the upcoming tab exactly those of the
\* reference date or later with status Scheduled, Upcoming or Confirmed, the
\* past tab exactly those before the reference date or with status Completed,
\* and the all tab every one, each in the order the query returned them.
C21_TabRefinement ==
    call.op = "getAppointments"
    => \A tab \in Tabs, today \in Todays :
          getFilteredAppointments(result.value, tab, today) =
             SelectSeq(result.value, LAMBDA apt : InTab(apt, tab, today))

\* a query has returned appointments of 2024-12-29 and of 2024-12-30, and
\* for the reference date 2024-12-29 the today tab keeps exactly the two of
\* 2024-12-29, the earlier time first
C21_Witness ==
    /\ call.op = "getAppointments"
    /\ \E k \in 1..Len(result.value) : result.value[k].date = <<2024, 12, 30>>
    /\ LET shown == getFilteredAppointments(result.value, "today", <<2024, 12, 29>>)
       IN  /\ Len(shown) = 2
           /\ shown[1].date = <<2024, 12, 29>> /\ shown[2].date = <<2024, 12, 29>>
           /\ shown[1].time[1] * 60 + shown[1].time[2]
                 < shown[2].time[1] * 60 + shown[2].time[2]
           /\ Len(getFilteredAppointments(result.value, "upcoming", <<2024, 12, 29>>)) >= 1

(* -------------------------------- C22 --------------------------------- *)

Twin(apt) ==
    [apt EXCEPT !.status = IF @ = "Upcoming" THEN "Scheduled" ELSE "Upcoming"]

\* the store with the record at i replaced by its twin
WithTwin(apts, i) == [apts EXCEPT ![i] = Twin(apts[i])]

\* updateAppointmentStatus(apts[i].id, newStatus) has the same outcome over
\* the store and over the store with the twin: both throw, or both return
\* and leave the same status in the record they changed
SameOutcome(apts, i, newStatus) ==
    LET id == apts[i].id
        j  == find(apts, id)
    IN  /\ updateResult(apts, id, newStatus).threw
             = updateResult(WithTwin(apts, i), id, newStatus).threw
        /\ updateStore(apts, id, newStatus)[j].status
             = updateStore(WithTwin(apts, i), id, newStatus)[j].status

\* C23: Upcoming and Scheduled are one state class: for every stored
\* appointment with one of the two statuses and every target status, the
\* request to change the status is permitted (accepted by
\* updateAppointmentStatus, and offered by a button of the card) exactly when
\* it is permitted for the same appointment with the other of the two
\* statuses, and leaves the same status.
C23_OneStateClass ==
    \A i \in 1..Len(mockAppointments) :
       mockAppointments[i].status \in {"Scheduled", "Upcoming"}
       => \A newStatus \in NewStatuses :
             /\ SameOutcome(mockAppointments, i, newStatus)
             /\ newStatus \in AppointmentCard(mockAppointments[i])
                  <=> newStatus \in AppointmentCard(Twin(mockAppointments[i]))

(* -------------------------------- C24 --------------------------------- *)

\* C24: for the request of a createAppointment call that passed the
\* required-field loop and every stored appointment, both of positive
\* duration, the overlap test of the conflict check answers the same with the
\* stored appointment as the existing one and the request as the new one, and
\* with the two the other way round.
C24_OverlapSymmetry ==
    (/\ call.op = "createAppointment"
     /\ FirstMissing(call.payload) = 0
     /\ call.payload.duration > 0)
    => \A i \in 1..Len(mockAppointments) :
          mockAppointments[i].duration > 0
          => (TimesOverlap(mockAppointments[i], call.payload)
                <=> TimesOverlap(call.payload, mockAppointments[i]))

\* createAppointment has rejected a request of positive duration that overlaps
\* one stored appointment, either way round, and not another, either way round
C24_Witness ==
    /\ call.op = "createAppointment"
    /\ result.threw /\ result.error = "Time conflict with appointment at"
    /\ call.payload.duration > 0
    /\ \E i \in 1..Len(mockAppointments), j \in 1..Len(mockAppointments) :
          /\ mockAppointments[i].duration > 0 /\ mockAppointments[j].duration > 0
          /\ TimesOverlap(mockAppointments[i], call.payload)
          /\ TimesOverlap(call.payload, mockAppointments[i])
          /\ ~TimesOverlap(mockAppointments[j], call.payload)
          /\ ~TimesOverlap(call.payload, mockAppointments[j])

(* -------------------------------- C25 --------------------------------- *)

\* C25: every updateAppointmentStatus call a button of a card issues is
\* Confirmed for a shown appointment that is Scheduled, Cancelled for one that
\* is Scheduled, Confirmed or Upcoming, or Completed for one that is
\* Confirmed; and with the statuses changed through the buttons only, every
\* change of a stored status is an edge of the transition table, and a
\* Completed or Cancelled appointment keeps its status.
C25_ButtonsFollowTable ==
    [][ IsCall("updateAppointmentStatus")
        => /\ \E k \in 1..Len(view.appointments) :
                 LET appointment == view.appointments[k]
                 IN  /\ appointment.id = call'.id
                     /\ \/ /\ call'.newStatus = "Confirmed"
                            /\ appointment.status = "Scheduled"
                        \/ /\ call'.newStatus = "Cancelled"
                            /\ appointment.status \in {"Scheduled", "Confirmed", "Upcoming"}
                        \/ /\ call'.newStatus = "Completed"
                            /\ appointment.status = "Confirmed"
           /\ \A i \in 1..Len(mockAppointments) :
                 /\ mockAppointments'[i].status # mockAppointments[i].status
                      => Edge(mockAppointments[i].status, mockAppointments'[i].status)
                 /\ mockAppointments[i].status \in TerminalStatuses
                      => mockAppointments'[i].status = mockAppointments[i].status ]_vars

(* -------------------------------- C26 --------------------------------- *)

\* C26: a getAppointments call, whatever its filters, leaves the store as it
\* was: the same records with the same field values in the same stored order.
C26_QueryReadOnly ==
    [][ IsCall("getAppointments") => mockAppointments' = mockAppointments ]_vars

\* a query without filters has returned the three or more stored appointments
\* in another order than the store holds them
C26_Witness ==
    /\ call.op = "getAppointments"
    /\ call.filters = NoFilters
    /\ Len(mockAppointments) >= 3
    /\ Len(result.value) = Len(mockAppointments)
    /\ result.value # mockAppointments

====
